---------------------------- MODULE Spec2Model ----------------------------
(***************************************************************************)
(* Change detection of lib/utils/Utils.ts: merge, diff, diffEntities,      *)
(* prepareEntity, shouldIgnoreProperty, copy, extractPK and                *)
(* getCompositeKeyHash, over a small universe of JavaScript values.        *)
(*                                                                         *)
(* JavaScript values are tagged records.  Arrays and plain objects carry   *)
(* an identity `addr`: two values with the same non-zero addr are the same *)
(* object, so an in-place mutation is seen through every holder of it.     *)
(* addr Fresh is a newly allocated object nobody else holds.               *)
(***************************************************************************)
EXTENDS Integers, Sequences, FiniteSets, TLC

VARIABLES
  entities,   \* the live entity graph: id -> [type, f (fields), keys (enumeration order)]
  snap,       \* result of the last prepareEntity(entity) call
  again,      \* result of the last prepareEntity(snap) call
  a, b,       \* arguments of diff
  target,     \* first argument of merge
  sources,    \* rest arguments of merge
  data,       \* first argument of extractPK / getCompositeKeyHash
  meta,       \* second argument of extractPK / getCompositeKeyHash
  op,         \* name of the last operation called
  ret         \* its return value

vars == <<entities, snap, again, a, b, target, sources, data, meta, op, ret>>

\* ------------------------------------------------------------------ bounds
MaxNum == 2     \* numbers are 0..MaxNum
MaxLen == 2     \* live arrays and collections grow to this length
MaxSources == 2 \* merge is called with up to this many sources

\* ------------------------------------------------------------------ values
None == [t |-> "none"]            \* no call made yet (not a JavaScript value)
Undef == [t |-> "undefined"]
Null == [t |-> "null"]
Bool(x) == [t |-> "boolean", v |-> x]
Num(n) == [t |-> "number", n |-> n]
Str(s) == [t |-> "string", s |-> s]
Date(n) == [t |-> "date", ms |-> n]
ObjectId(s) == [t |-> "objectid", hex |-> s]
Fresh == "fresh"               \* the addr of an object only its creator holds
Arr(ad, s) == [t |-> "array", addr |-> ad, el |-> s]
Obj(ad, f) == [t |-> "object", addr |-> ad, o |-> f, prepared |-> FALSE]
Entity(i) == [t |-> "entity", id |-> i]
Ref(i) == [t |-> "reference", id |-> i]
Coll(s) == [t |-> "collection", items |-> s]
Thrown == [t |-> "error"]         \* the call threw

NoFields == [k \in {} |-> Undef]
EmptyObj == Obj(Fresh, NoFields)

\* JavaScript ToBoolean
Truthy(v) ==
  CASE v.t \in {"undefined", "null"} -> FALSE
    [] v.t = "boolean" -> v.v
    [] v.t = "number" -> v.n # 0
    [] v.t = "string" -> v.s # ""
    [] OTHER -> TRUE

\* x || y
OrElse(x, y) == IF Truthy(x) THEN x ELSE y

isDefined(v) == v.t # "undefined"

isArray(v) == v.t = "array"

\* typeof o === 'object' holds for null, arrays and every object kind; `not` is
\* the set of blacklisted classes
isObject(o, not) ==
  /\ Truthy(o)
  /\ o.t \in {"object", "entity", "reference", "collection", "date", "objectid"}
  /\ o.t \notin not

isString(s) == s.t = "string"

isNumber(s) == s.t = "number"

\* ---------------------------------------------------------------- metadata
\* The registry's descriptors (EntityMetadata and EntityProperty of ../typings),
\* read by the code as meta.primaryKey, meta.primaryKeys, meta.compositePK,
\* meta.serializedPrimaryKey, meta.properties and prop.name, prop.type,
\* prop.reference, prop.owner, prop.primary, prop.persist, prop.inversedBy,
\* prop.mappedBy, prop.customType.
SCALAR == "scalar"
ONE_TO_ONE == "1:1"
MANY_TO_ONE == "m:1"
ONE_TO_MANY == "1:m"

Prop(name, type, reference) ==
  [name |-> name, type |-> type, reference |-> reference, owner |-> FALSE,
   primary |-> FALSE, persist |-> TRUE, linked |-> FALSE, customType |-> "none"]

\* linked: prop.inversedBy || prop.mappedBy
BookProperties ==
  << [Prop("id", "number", SCALAR) EXCEPT !.primary = TRUE],
     Prop("title", "string", SCALAR),
     [Prop("price", "number", SCALAR) EXCEPT !.customType = "string"],
     Prop("tags", "array", SCALAR),
     [Prop("extra", "array", SCALAR) EXCEPT !.customType = "base"],
     Prop("prefs", "object", SCALAR),
     Prop("isbn", "string", SCALAR),
     [Prop("virt", "number", SCALAR) EXCEPT !.persist = FALSE],
     [Prop("author", "Author", MANY_TO_ONE) EXCEPT !.linked = TRUE],
     [Prop("editor", "Author", MANY_TO_ONE) EXCEPT !.linked = TRUE],
     [Prop("own", "Author", ONE_TO_ONE) EXCEPT !.owner = TRUE, !.linked = TRUE],
     [Prop("pair", "Pair", ONE_TO_ONE) EXCEPT !.owner = TRUE, !.linked = TRUE],
     [Prop("profile", "Author", ONE_TO_ONE) EXCEPT !.linked = TRUE],
     [Prop("items", "Author", ONE_TO_MANY) EXCEPT !.linked = TRUE] >>

BookMeta ==
  [name |-> "Book", primaryKey |-> "id", primaryKeys |-> <<"id">>,
   compositePK |-> FALSE, serializedPrimaryKey |-> "id", properties |-> BookProperties]

AuthorMeta ==
  [name |-> "Author", primaryKey |-> "id", primaryKeys |-> <<"id">>,
   compositePK |-> FALSE, serializedPrimaryKey |-> "id",
   properties |-> << [Prop("id", "number", SCALAR) EXCEPT !.primary = TRUE] >>]

\* a document-store entity: the key is _id, its serialized form is id
TagMeta ==
  [name |-> "Tag", primaryKey |-> "_id", primaryKeys |-> <<"_id">>,
   compositePK |-> FALSE, serializedPrimaryKey |-> "id",
   properties |-> << [Prop("_id", "ObjectId", SCALAR) EXCEPT !.primary = TRUE],
                     Prop("id", "string", SCALAR) >>]

\* a composite key <<a, b>> whose first part is a foreign key
PairMeta ==
  [name |-> "Pair", primaryKey |-> "a", primaryKeys |-> <<"a", "b">>,
   compositePK |-> TRUE, serializedPrimaryKey |-> "a",
   properties |-> << [Prop("a", "Author", MANY_TO_ONE) EXCEPT !.primary = TRUE],
                     [Prop("b", "string", SCALAR) EXCEPT !.primary = TRUE] >>]

NoMeta == [name |-> "undefined"]

Metas == {BookMeta, AuthorMeta, TagMeta, PairMeta}

\* metadata.get(name)
MetadataGet(name) == CHOOSE m \in Metas : m.name = name

\* ---------------------------------------------------------- property access
\* entity.constructor.name
ConstructorName(v) == IF v.t = "entity" THEN entities[v.id].type ELSE "Object"

\* wrap(entity).__meta
WrapMeta(v) == MetadataGet(entities[v.id].type)

\* `key in o`
In(k, o) ==
  CASE o.t = "object" -> k \in DOMAIN o.o \/ (k = "__prepared" /\ o.prepared)
    [] o.t = "entity" -> k \in DOMAIN entities[o.id].f \/ k = "__entity"
    [] o.t = "reference" -> k \in {WrapMeta(o).primaryKey, WrapMeta(o).serializedPrimaryKey}
    [] OTHER -> FALSE

\* o[key]; a Reference forwards the key of the entity it wraps
Get(o, k) ==
  CASE o.t = "object" ->
         IF k \in DOMAIN o.o THEN o.o[k]
         ELSE IF k = "__prepared" /\ o.prepared THEN Bool(TRUE) ELSE Undef
    [] o.t = "entity" ->
         IF k \in DOMAIN entities[o.id].f THEN entities[o.id].f[k]
         ELSE IF k = "__entity" THEN Bool(TRUE) ELSE Undef
    [] o.t = "reference" ->
         IF /\ k \in {WrapMeta(o).primaryKey, WrapMeta(o).serializedPrimaryKey}
            /\ k \in DOMAIN entities[o.id].f
         THEN entities[o.id].f[k] ELSE Undef
    [] OTHER -> Undef

isObjectID(key) == isObject(key, {}) /\ key.t = "objectid"

isPrimaryKey(key) == isString(key) \/ key.t = "number" \/ isObjectID(key)

isReference(v) == v.t = "reference"

isEntity(v, allowReference) ==
  IF allowReference /\ isReference(v) THEN TRUE
  ELSE isObject(v, {}) /\ Truthy(Get(v, "__entity"))

\* ------------------------------------------------------- equality and clone
\* fast-deep-equal: === on scalars, arrays by length and elements in order,
\* dates by time, plain objects by own enumerable keys and their values;
\* object identity (addr) and the non-enumerable marker play no part
\* ===: two arrays or objects are equal only when they are the same object
equals_strict(x, y) ==
  IF x.t \in {"array", "object"} THEN x.addr # Fresh /\ x = y ELSE x = y

RECURSIVE equals(_, _)
equals(x, y) ==
  CASE x.t = "array" /\ y.t = "array" ->
         /\ Len(x.el) = Len(y.el)
         /\ \A i \in 1..Len(x.el) : equals(x.el[i], y.el[i])
    [] x.t = "date" /\ y.t = "date" -> x.ms = y.ms
    [] x.t = "object" /\ y.t = "object" ->
         /\ Cardinality(DOMAIN x.o) = Cardinality(DOMAIN y.o)
         /\ \A k \in DOMAIN x.o : k \in DOMAIN y.o /\ equals(x.o[k], y.o[k])
    [] OTHER -> x = y

\* clone: a new object graph (addr Fresh throughout) with the same structure and leaves
\* a shallow clone: the elements and field values are shared with the original
copy_shallow(v) ==
  CASE v.t = "array" -> Arr(Fresh, v.el)
    [] v.t = "object" -> Obj(Fresh, v.o)
    [] OTHER -> v

RECURSIVE copy(_)
copy(v) ==
  CASE v.t = "array" -> Arr(Fresh, [i \in 1..Len(v.el) |-> copy(v.el[i])])
    [] v.t = "object" -> Obj(Fresh, [k \in DOMAIN v.o |-> copy(v.o[k])])
    [] OTHER -> v

\* Object.keys(o): the own enumerable keys
ObjectKeys(o) ==
  CASE o.t = "object" -> DOMAIN o.o
    [] o.t = "entity" -> DOMAIN entities[o.id].f
    [] OTHER -> {}

\* --------------------------------------------------------------------- diff
\* iterates the keys of the first argument instead of the second
diff_keysOfA(x, y) ==
  Obj(Fresh, [k \in {j \in ObjectKeys(x) : ~equals(Get(x, j), Get(y, j))} |-> Get(y, k)])

diff(x, y) ==
  Obj(Fresh, [k \in {j \in ObjectKeys(y) : ~equals(Get(x, j), Get(y, j))} |-> Get(y, k)])

\* -------------------------------------------------------------------- merge
\* the classes merge treats as opaque values: Date, RegExp, Buffer
Opaque == {"date"}

\* one source merged into target; keys are independent of each other, so the
\* forEach over Object.entries(source) is a map over the union of the keys.
\* A target that is an object but holds no enumerable fields of its own
\* (a Date) is left as it is.
RECURSIVE mergeOne(_, _)
mergeOne(t, s) ==
  IF isObject(t, {}) /\ isObject(s, {}) /\ t.t = "object" /\ s.t = "object"
  THEN [t EXCEPT !.o =
         [k \in DOMAIN t.o \cup DOMAIN s.o |->
            IF k \notin DOMAIN s.o THEN t.o[k]
            ELSE IF isObject(s.o[k], Opaque)
                 THEN mergeOne(IF In(k, t) THEN t.o[k] ELSE EmptyObj, s.o[k])
                 ELSE s.o[k]]]
  ELSE t

RECURSIVE merge(_, _)
merge(t, ss) ==
  IF Len(ss) = 0 THEN t ELSE merge(mergeOne(t, Head(ss)), Tail(ss))

\* ------------------------------------------------------------- primary keys
\* String(v) as Array.prototype.join applies it: null and undefined give ''
JoinString(v) ==
  CASE v.t \in {"undefined", "null"} -> ""
    [] v.t = "number" -> ToString(v.n)
    [] v.t = "string" -> v.s
    [] v.t = "objectid" -> v.hex
    [] OTHER -> "[object Object]"

\* parts.join('~')
RECURSIVE Join(_)
Join(parts) ==
  IF Len(parts) = 0 THEN ""
  ELSE IF Len(parts) = 1 THEN JoinString(parts[1])
  ELSE JoinString(parts[1]) \o "~" \o Join(Tail(parts))

RECURSIVE getCompositeKeyHash(_, _)
RECURSIVE SerializedPrimaryKey(_)
\* wrap(v).__serializedPrimaryKey: the identity of the entity v is or wraps
SerializedPrimaryKey(v) ==
  IF WrapMeta(v).compositePK
  THEN getCompositeKeyHash(Entity(v.id), WrapMeta(v))
  ELSE Get(Entity(v.id), WrapMeta(v).serializedPrimaryKey)

\* walks the key fields in the order the instance enumerates them
getCompositeKeyHash_instanceOrder(e, m) ==
  LET InKey(k) == \E i \in 1..Len(m.primaryKeys) : m.primaryKeys[i] = k
      order == IF e.t = "entity" THEN SelectSeq(entities[e.id].keys, InKey) ELSE m.primaryKeys
  IN Str(Join([i \in 1..Len(order) |->
                 IF isEntity(Get(e, order[i]), TRUE)
                 THEN SerializedPrimaryKey(Get(e, order[i]))
                 ELSE Get(e, order[i])]))

getCompositeKeyHash(e, m) ==
  Str(Join([i \in 1..Len(m.primaryKeys) |->
              IF isEntity(Get(e, m.primaryKeys[i]), TRUE)
              THEN SerializedPrimaryKey(Get(e, m.primaryKeys[i]))
              ELSE Get(e, m.primaryKeys[i])]))

\* tries the serialized key before the raw one
extractPK_serializedFirst(d, m) ==
  IF isPrimaryKey(d) THEN d
  ELSE LET mm == IF isEntity(d, FALSE) /\ m = NoMeta THEN WrapMeta(d) ELSE m
       IN IF isObject(d, {}) /\ mm # NoMeta
          THEN IF mm.compositePK
               THEN getCompositeKeyHash(d, mm)
               ELSE OrElse(Get(d, mm.serializedPrimaryKey),
                           OrElse(Get(d, mm.primaryKey), Null))
          ELSE Null

extractPK(d, m) ==
  IF isPrimaryKey(d) THEN d
  ELSE LET mm == IF isEntity(d, FALSE) /\ m = NoMeta THEN WrapMeta(d) ELSE m
       IN IF isObject(d, {}) /\ mm # NoMeta
          THEN IF mm.compositePK
               THEN getCompositeKeyHash(d, mm)
               ELSE OrElse(Get(d, mm.primaryKey),
                           OrElse(Get(d, mm.serializedPrimaryKey), Null))
          ELSE Null

\* ------------------------------------------------------------ prepareEntity
\* prop.customType.convertToDatabaseValue(value, platform): the base Type hands
\* the value back as it is; "string" is a codec that stores a number as text
convertToDatabaseValue(customType, v) ==
  IF customType = "string" /\ v.t = "number" THEN Str(ToString(v.n)) ELSE v

shouldIgnoreProperty(entity, prop) ==
  IF ~In(prop.name, entity) THEN TRUE
  ELSE LET v == Get(entity, prop.name)
           pk == MetadataGet(prop.type).primaryKey
           collection == v.t = "collection"
           noPkRef == isEntity(v, FALSE) /\ ~Truthy(Get(v, pk))
           noPkProp == prop.primary /\ ~Truthy(v)
           inverse == prop.reference = ONE_TO_ONE /\ ~prop.owner
           isSetter == prop.reference \in {ONE_TO_ONE, MANY_TO_ONE} /\ prop.linked
           emptyRef == isSetter /\ v = Undef
       IN collection \/ noPkProp \/ noPkRef \/ inverse \/ emptyRef \/ prop.persist = FALSE

\* the value prepareEntity stores for a property that is not ignored
PreparedValue(entity, prop) ==
  LET v == Get(entity, prop.name) IN
  IF isEntity(v, TRUE) THEN Get(v, MetadataGet(prop.type).primaryKey)
  ELSE IF prop.customType # "none" THEN convertToDatabaseValue(prop.customType, v)
  ELSE IF isArray(v) \/ isObject(v, {}) THEN copy(v)
  ELSE v

\* the marker is not set
MarkPrepared_skipped(o) == o

\* Object.defineProperty(ret, '__prepared', { value: true })
MarkPrepared(o) == [o EXCEPT !.prepared = TRUE]

PropNamed(props, n) == props[CHOOSE i \in 1..Len(props) : props[i].name = n]

\* metadata.get throws for a name that is not registered
prepareEntity(entity) ==
  IF Truthy(Get(entity, "__prepared")) THEN entity
  ELSE IF ConstructorName(entity) \notin {m.name : m \in Metas} THEN Thrown
  ELSE LET props == MetadataGet(ConstructorName(entity)).properties
           kept == {props[i].name : i \in {j \in 1..Len(props) :
                                            ~shouldIgnoreProperty(entity, props[j])}}
       IN MarkPrepared(Obj(Fresh, [n \in kept |-> PreparedValue(entity, PropNamed(props, n))]))

diffEntities(x, y) ==
  IF prepareEntity(x) = Thrown \/ prepareEntity(y) = Thrown THEN Thrown
  ELSE diff(prepareEntity(x), prepareEntity(y))

\* ==================================================================== diff
\* Two snapshots are drawn; Diff calls diff(a, b).
DiffKeys == {"x", "y", "z"}

\* field values of a snapshot: undefined, numbers and an array; the arrays of
\* a and of b are distinct objects with the same elements
DiffVals(ad) == {Undef, Arr(ad, <<Num(1)>>)} \cup {Num(n) : n \in 1..MaxNum}

Snapshots(ad) ==
  {MarkPrepared(Obj(Fresh, f)) : f \in UNION {[S -> DiffVals(ad)] : S \in SUBSET DiffKeys}}

DiffInit ==
  /\ a \in Snapshots("a.array")
  /\ b \in Snapshots("b.array")
  /\ entities = <<>> /\ snap = None /\ again = None
  /\ target = None /\ sources = <<>> /\ data = None /\ meta = NoMeta
  /\ op = "none" /\ ret = None

Diff ==
  /\ op = "none"
  /\ op' = "diff"
  /\ ret' = diff(a, b)
  /\ UNCHANGED <<entities, snap, again, a, b, target, sources, data, meta>>

DiffNext == Diff

SpecDiff == DiffInit /\ [][DiffNext]_vars

\* C1 (as amended): diff(A, B) returns exactly the fields k of B for which A[k],
\* read as undefined when k is absent from A, is not structurally equal to
\* B[k], each carrying B's value.  So a field only in A never appears, a field
\* equal in both never appears, and a field only in B appears unless B holds
\* undefined there.
C1_DiffAmended ==
  op = "diff" =>
    /\ ret.t = "object" /\ ~ret.prepared
    /\ \A k \in DiffKeys :
         k \in DOMAIN ret.o <=>
           /\ k \in DOMAIN b.o
           /\ IF k \in DOMAIN a.o THEN ~equals(a.o[k], b.o[k]) ELSE b.o[k] # Undef
    /\ \A k \in DOMAIN ret.o : ret.o[k] = b.o[k]

\* C1 as stated: every field of B that is absent from A is in the result.
C1_DiffOriginal ==
  op = "diff" =>
    /\ \A k \in DiffKeys :
         k \in DOMAIN ret.o <=>
           /\ k \in DOMAIN b.o
           /\ (k \notin DOMAIN a.o \/ ~equals(a.o[k], b.o[k]))
    /\ \A k \in DOMAIN ret.o : ret.o[k] = b.o[k]

\* x is structurally equal in both (two distinct arrays), y is only in A,
\* z is only in B: the result is exactly z
C1_Witness ==
  /\ op = "diff"
  /\ a.o = [x |-> Arr("a.array", <<Num(1)>>), y |-> Num(2)]
  /\ b.o = [x |-> Arr("b.array", <<Num(1)>>), z |-> Num(1)]
  /\ ret.o = [z |-> Num(1)]

\* =================================================================== merge
\* A target and a list of sources are drawn; Merge calls merge(target, ...sources).
MergeNums == {Num(n) : n \in 1..MaxNum}

MergeLeaves == MergeNums \cup {Arr(Fresh, <<Num(1)>>), Date(1)}

MergeInner == {Obj(Fresh, f) : f \in UNION {[S -> MergeNums] : S \in SUBSET {"p", "q"}}}

MergeVals == MergeLeaves \cup MergeInner

MergeObjs ==
  {Obj(Fresh, [x \in S |-> IF x = "k" THEN v ELSE Num(1)]) : S \in SUBSET {"k", "j"}, v \in MergeVals}

RECURSIVE SeqsUpTo(_, _)
SeqsUpTo(S, n) ==
  IF n = 0 THEN {<<>>}
  ELSE SeqsUpTo(S, n - 1) \cup {Append(q, x) : q \in SeqsUpTo(S, n - 1), x \in S}

MergeInit ==
  /\ target \in MergeObjs \cup {Num(1)}
  /\ sources \in SeqsUpTo(MergeObjs, MaxSources)
  /\ entities = <<>> /\ snap = None /\ again = None
  /\ a = None /\ b = None /\ data = None /\ meta = NoMeta
  /\ op = "none" /\ ret = None

\* target is mutated in place and returned
Merge ==
  /\ op = "none"
  /\ op' = "merge"
  /\ target' = merge(target, sources)
  /\ ret' = target'
  /\ UNCHANGED <<entities, snap, again, a, b, sources, data, meta>>

MergeNext == Merge

SpecMerge == MergeInit /\ [][MergeNext]_vars

\* r holds everything s holds: a plain nested structure of s is a nested
\* structure of r that holds it in turn, any other value of s is r's value
RECURSIVE Overrides(_, _)
Overrides(r, s) ==
  \A k \in DOMAIN s.o :
    /\ k \in DOMAIN r.o
    /\ IF isObject(s.o[k], Opaque)
       THEN r.o[k].t = "object" /\ Overrides(r.o[k], s.o[k])
       ELSE r.o[k] = s.o[k]

\* C8: after merge(target, s1, ..., sn) the last source has overridden what
\* came before it: each of its nested structures is merged into (or created
\* on) the target's, each of its other values has replaced the target's, and
\* the value returned is the target.
C8_MergeOverrides ==
  (op = "merge" /\ target.t = "object" /\ Len(sources) > 0) =>
    /\ ret = target
    /\ Overrides(ret, sources[Len(sources)])

\* ============================================================ primary keys
\* An Author and a Pair whose key part a may reference the Author are
\* drawn with the argument and the metadata; ExtractPK and GetCompositeKeyHash
\* call the two functions.
AUTHOR == "author"
PAIR == "pair"

PkNums == {Num(n) : n \in 0..MaxNum}

\* what a key field of a plain structure may hold
PkFieldVals == PkNums \cup {Null, Str(""), Str("x")}

PkPlain == {Obj(Fresh, f) : f \in UNION {[S -> PkFieldVals] : S \in SUBSET {"_id", "id"}}}

PkPartA == {Num(n) : n \in 1..MaxNum} \cup {Undef, Null, Entity(AUTHOR), Ref(AUTHOR)}

PkComposite ==
  {Obj(Fresh, [a |-> x, b |-> Str("x")]) : x \in PkPartA} \cup {Obj(Fresh, [a |-> x]) : x \in PkPartA}

PkData ==
  PkNums \cup {Str("x"), ObjectId("5e"), Undef, Null, Arr(Fresh, <<>>), Entity(AUTHOR), Entity(PAIR)}
    \cup PkPlain \cup PkComposite

PkEntities ==
  {[author |-> [type |-> "Author", f |-> [id |-> i], keys |-> <<"id">>],
    pair |-> [type |-> "Pair", f |-> [a |-> x, b |-> y], keys |-> ks]] :
     i \in {Undef} \cup {Num(n) : n \in 1..MaxNum},
     x \in PkPartA, y \in {Undef, Str("x")}, ks \in {<<"a", "b">>, <<"b", "a">>}}

PkInit ==
  /\ entities \in PkEntities
  /\ data \in PkData
  /\ meta \in {NoMeta, AuthorMeta, TagMeta, PairMeta}
  /\ snap = None /\ again = None /\ a = None /\ b = None
  /\ target = None /\ sources = <<>>
  /\ op = "none" /\ ret = None

ExtractPK ==
  /\ op' = "extractPK"
  /\ ret' = extractPK(data, meta)
  /\ UNCHANGED <<entities, snap, again, a, b, target, sources, data, meta>>

\* entity[pk] throws on a value that is no object
GetCompositeKeyHash ==
  /\ isObject(data, {})
  /\ meta # NoMeta
  /\ op' = "getCompositeKeyHash"
  /\ ret' = getCompositeKeyHash(data, meta)
  /\ UNCHANGED <<entities, snap, again, a, b, target, sources, data, meta>>

PkNext == ExtractPK \/ GetCompositeKeyHash

SpecPK == PkInit /\ [][PkNext]_vars

\* C6 (as amended): for a plain structure and a non-composite metadata,
\* extractPK returns data[primaryKey] when that value is truthy, else the
\* serialized key's value when that is truthy, else null (a key that is
\* present but 0, '' or null counts as absent); with no metadata and an input
\* that is neither key-shaped nor an entity it returns null.
C6_ExtractAmended ==
  op = "extractPK" =>
    /\ (data.t = "object" /\ meta # NoMeta /\ ~meta.compositePK) =>
         ret = IF Truthy(Get(data, meta.primaryKey)) THEN Get(data, meta.primaryKey)
               ELSE IF Truthy(Get(data, meta.serializedPrimaryKey))
                    THEN Get(data, meta.serializedPrimaryKey)
                    ELSE Null
    /\ (meta = NoMeta /\ ~isPrimaryKey(data) /\ data.t # "entity") => ret = Null

\* C6 as stated: data[primaryKey] is returned whenever the field is present,
\* the serialized key only when the raw field is absent.
C6_ExtractOriginal ==
  op = "extractPK" =>
    /\ (data.t = "object" /\ meta # NoMeta /\ ~meta.compositePK) =>
         ret = IF meta.primaryKey \in DOMAIN data.o THEN data.o[meta.primaryKey]
               ELSE IF meta.serializedPrimaryKey \in DOMAIN data.o
                    THEN data.o[meta.serializedPrimaryKey]
                    ELSE Null
    /\ (meta = NoMeta /\ ~isPrimaryKey(data) /\ data.t # "entity") => ret = Null

\* the raw key is absent or falsy and the serialized key is returned
C6_Witness ==
  /\ op = "extractPK"
  /\ meta = TagMeta
  /\ data = Obj(Fresh, [id |-> Str("x")])
  /\ ret = Str("x")

\* the text a key field contributes: the identity of the Author it references,
\* else the field's own value
KeyPart(v) ==
  IF v.t \in {"entity", "reference"} THEN JoinString(entities[v.id].f.id) ELSE JoinString(v)

\* C7: getCompositeKeyHash of a Pair is the identity of a and the identity of
\* b joined with '~' in the declared order <<a, b>>, whatever the order the
\* instance enumerates its fields in and however often it is called; a key
\* field that references an entity contributes that entity's identity.
C7_CompositeHash ==
  (op = "getCompositeKeyHash" /\ meta = PairMeta) =>
    ret = Str(KeyPart(Get(data, "a")) \o "~" \o KeyPart(Get(data, "b")))

\* the instance enumerates b before a, a references Author 1: the hash is 1~x
C7_Witness ==
  /\ op = "getCompositeKeyHash" /\ meta = PairMeta /\ data = Entity(PAIR)
  /\ entities[PAIR].keys = <<"b", "a">>
  /\ entities[PAIR].f.a = Entity(AUTHOR) /\ entities[PAIR].f.b = Str("x")
  /\ entities[AUTHOR].f.id = Num(1)
  /\ ret = Str("1~x")

\* =============================================================== relations
\* A Book whose relation fields reference the Author and the Pair,
\* both not yet persisted.  The host application assigns keys and fills the
\* collection; Prepare calls prepareEntity(book), Reprepare normalizes the
\* snapshot again, DiffEntities compares the Book with itself.  A change of
\* the graph discards the snapshot taken from it.
BOOK == "book"

RelBooks ==
  {[type |-> "Book",
    f |-> [id |-> Undef, title |-> Str("x"), virt |-> Num(1),
           author |-> au, editor |-> ed, own |-> ow, pair |-> pa, profile |-> pr,
           items |-> Coll(<<>>)],
    keys |-> <<"id", "title", "virt", "author", "editor", "own", "pair", "profile", "items">>] :
     au \in {Undef, Null, Entity(AUTHOR)},
     ed \in {Undef, Null, Ref(AUTHOR)},
     ow \in {Null, Entity(AUTHOR), Ref(AUTHOR)},
     pa \in {Null, Entity(PAIR)},
     pr \in {Undef, Null, Entity(AUTHOR)}}

RelInit ==
  /\ entities \in
       {[author |-> [type |-> "Author", f |-> [id |-> Undef], keys |-> <<"id">>],
         pair |-> [type |-> "Pair", f |-> [a |-> Undef, b |-> Undef], keys |-> <<"a", "b">>],
         book |-> bk] : bk \in RelBooks}
  /\ snap = None /\ again = None /\ a = None /\ b = None
  /\ target = None /\ sources = <<>> /\ data = None /\ meta = NoMeta
  /\ op = "none" /\ ret = None

\* the store assigns the key of a persisted Author or Book
AssignPK(e, n) ==
  /\ entities[e].type \in {"Author", "Book"}
  /\ entities[e].f.id = Undef
  /\ entities' = [entities EXCEPT ![e].f.id = Num(n)]
  /\ snap' = None /\ again' = None
  /\ UNCHANGED <<a, b, target, sources, data, meta, op, ret>>

\* the store assigns both parts of the key of a persisted Pair
AssignPairPK(n) ==
  /\ entities[PAIR].f.a = Undef
  /\ entities' = [entities EXCEPT ![PAIR].f.a = Num(n), ![PAIR].f.b = Str("x")]
  /\ snap' = None /\ again' = None
  /\ UNCHANGED <<a, b, target, sources, data, meta, op, ret>>

\* book.items.add(author)
CollectionAdd ==
  /\ Len(entities[BOOK].f.items.items) < MaxLen
  /\ entities' = [entities EXCEPT ![BOOK].f.items = Coll(Append(@.items, Entity(AUTHOR)))]
  /\ snap' = None /\ again' = None
  /\ UNCHANGED <<a, b, target, sources, data, meta, op, ret>>

Prepare ==
  /\ snap' = prepareEntity(Entity(BOOK))
  /\ again' = None
  /\ UNCHANGED <<entities, a, b, target, sources, data, meta, op, ret>>

Reprepare ==
  /\ snap # None
  /\ again' = prepareEntity(snap)
  /\ UNCHANGED <<entities, snap, a, b, target, sources, data, meta, op, ret>>

DiffEntities ==
  /\ op' = "diffEntities"
  /\ ret' = diffEntities(Entity(BOOK), Entity(BOOK))
  /\ UNCHANGED <<entities, snap, again, a, b, target, sources, data, meta>>

RelNext ==
  \/ \E e \in {AUTHOR, BOOK}, n \in 1..MaxNum : AssignPK(e, n)
  \/ \E n \in 1..MaxNum : AssignPairPK(n)
  \/ CollectionAdd
  \/ Prepare
  \/ Reprepare
  \/ DiffEntities

SpecRel == RelInit /\ [][RelNext]_vars

Live(k) == entities[BOOK].f[k]

\* every part of the key of the entity v is or wraps has been assigned
KeyAssigned(v) ==
  \A i \in 1..Len(WrapMeta(v).primaryKeys) :
    Truthy(Get(Entity(v.id), WrapMeta(v).primaryKeys[i]))

\* the identity of the entity v is or wraps, as extractPK gives it
Identity(v) == extractPK(Entity(v.id), NoMeta)

\* C2: a field that holds a reference to an Author, embedded or wrapped, is
\* omitted from the snapshot while the Author's key is unset, and is included
\* with the Author's key once it is assigned.
C2_UnsavedReferenceOmitted ==
  snap.t = "object" =>
    \A k \in {"author", "editor", "own"} :
      isEntity(Live(k), TRUE) =>
        IF KeyAssigned(Live(k))
        THEN k \in DOMAIN snap.o /\ snap.o[k] = entities[AUTHOR].f.id
        ELSE k \notin DOMAIN snap.o

\* C3: every field of the snapshot whose live value is an entity reference,
\* embedded or wrapped, holds that entity's identity as extractPK defines it:
\* the key's value for a single key, the composite string for a composite key.
\* Stated for the references whose key is assigned, where an identity exists.
C3_ReferenceIsIdentity ==
  snap.t = "object" =>
    \A k \in DOMAIN snap.o :
      (isEntity(Live(k), TRUE) /\ KeyAssigned(Live(k))) => snap.o[k] = Identity(Live(k))

\* C9: the snapshot holds no field whose live value is a Collection and no
\* inverse side of a one-to-one relation, and it holds the owning side of a
\* one-to-one relation as the identity of the related entity.
C9_CollectionInverseOwner ==
  snap.t = "object" =>
    \A i \in 1..Len(BookProperties) :
      LET p == BookProperties[i] IN
      In(p.name, Entity(BOOK)) =>
        /\ Live(p.name).t = "collection" => p.name \notin DOMAIN snap.o
        /\ (p.reference = ONE_TO_ONE /\ ~p.owner) => p.name \notin DOMAIN snap.o
        /\ (/\ p.reference = ONE_TO_ONE /\ p.owner
            /\ isEntity(Live(p.name), TRUE) /\ KeyAssigned(Live(p.name))) =>
              p.name \in DOMAIN snap.o /\ snap.o[p.name] = Identity(Live(p.name))

\* What holds of the relation fields in every state of SpecRel: an embedded
\* reference is omitted while the key is unset and included with the key once
\* it is assigned; a wrapped reference with an assigned key is included with it.
EmbeddedReferenceOmitted ==
  snap.t = "object" =>
    \A k \in {"author", "editor", "own"} :
      /\ isEntity(Live(k), FALSE) =>
           IF KeyAssigned(Live(k))
           THEN k \in DOMAIN snap.o /\ snap.o[k] = entities[AUTHOR].f.id
           ELSE k \notin DOMAIN snap.o
      /\ (isReference(Live(k)) /\ KeyAssigned(Live(k))) =>
           k \in DOMAIN snap.o /\ snap.o[k] = entities[AUTHOR].f.id

\* What holds of collections and one-to-one relations in every state of
\* SpecRel: neither a Collection nor an inverse side is in the snapshot, and an
\* owning side whose related entity has a single key holds that key.
CollectionAndInverseOmitted ==
  snap.t = "object" =>
    \A i \in 1..Len(BookProperties) :
      LET p == BookProperties[i] IN
      In(p.name, Entity(BOOK)) =>
        /\ Live(p.name).t = "collection" => p.name \notin DOMAIN snap.o
        /\ (p.reference = ONE_TO_ONE /\ ~p.owner) => p.name \notin DOMAIN snap.o
        /\ (/\ p.reference = ONE_TO_ONE /\ p.owner
            /\ ~MetadataGet(p.type).compositePK
            /\ isEntity(Live(p.name), TRUE) /\ KeyAssigned(Live(p.name))) =>
              p.name \in DOMAIN snap.o /\ snap.o[p.name] = Identity(Live(p.name))


\* =============================================================== snapshots
\* A persisted Book with array and nested-object fields.  The host
\* application mutates those in place; Prepare takes a snapshot, Reprepare
\* normalizes the snapshot again, DiffEntities compares the Book with itself.
TAGS == "book.tags"
EXTRA == "book.extra"
PREFS == "book.prefs"
LIST == "book.prefs.list"

SnapInit ==
  /\ entities =
       [author |-> [type |-> "Author", f |-> [id |-> Num(1)], keys |-> <<"id">>],
        pair |-> [type |-> "Pair", f |-> [a |-> Num(1), b |-> Str("x")], keys |-> <<"a", "b">>],
        book |->
          [type |-> "Book",
           f |-> [id |-> Num(1), title |-> Str("x"), price |-> Num(1), virt |-> Num(1),
                  tags |-> Arr(TAGS, <<>>), extra |-> Arr(EXTRA, <<>>),
                  prefs |-> Obj(PREFS, [list |-> Arr(LIST, <<>>)]),
                  author |-> Entity(AUTHOR), items |-> Coll(<<>>)],
           keys |-> <<"id", "title", "price", "virt", "tags", "extra", "prefs", "author", "items">>]]
  /\ snap = None /\ again = None /\ a = None /\ b = None
  /\ target = None /\ sources = <<>> /\ data = None /\ meta = NoMeta
  /\ op = "none" /\ ret = None

\* every occurrence of the object at addr ad inside v becomes nv
RECURSIVE replaceAt(_, _, _)
replaceAt(v, ad, nv) ==
  CASE v.t \in {"array", "object"} /\ v.addr = ad -> nv
    [] v.t = "array" -> [v EXCEPT !.el = [i \in DOMAIN v.el |-> replaceAt(v.el[i], ad, nv)]]
    [] v.t = "object" -> [v EXCEPT !.o = [k \in DOMAIN v.o |-> replaceAt(v.o[k], ad, nv)]]
    [] OTHER -> v

\* an in-place mutation of the object at addr ad is seen by every holder of it
MutateInPlace(ad, nv) ==
  /\ entities' = [entities EXCEPT ![BOOK].f = [k \in DOMAIN @ |-> replaceAt(@[k], ad, nv)]]
  /\ snap' = replaceAt(snap, ad, nv)
  /\ again' = replaceAt(again, ad, nv)
  /\ ret' = replaceAt(ret, ad, nv)
  /\ UNCHANGED <<a, b, target, sources, data, meta, op>>

\* book[k].push(n) for the array fields tags and extra
Push(k) ==
  /\ Len(Live(k).el) < MaxLen
  /\ MutateInPlace(Live(k).addr, [Live(k) EXCEPT !.el = Append(@, Num(Len(@) + 1))])

\* book.prefs.list.push(n)
PushNested ==
  LET list == Live("prefs").o.list IN
  /\ Len(list.el) < MaxLen
  /\ MutateInPlace(LIST, [list EXCEPT !.el = Append(@, Num(Len(@) + 1))])

\* book.prefs.dark = 1
SetNested ==
  /\ "dark" \notin DOMAIN Live("prefs").o
  /\ MutateInPlace(PREFS, [Live("prefs") EXCEPT !.o =
       [k \in DOMAIN @ \cup {"dark"} |-> IF k = "dark" THEN Num(1) ELSE @[k]]])

SnapNext ==
  \/ \E k \in {"tags", "extra"} : Push(k)
  \/ PushNested
  \/ SetNested
  \/ Prepare
  \/ Reprepare
  \/ DiffEntities

SpecSnap == SnapInit /\ [][SnapNext]_vars

\* C4: prepareEntity(prepareEntity(e)) is prepareEntity(e), field for field:
\* the snapshot carries the prepared marker and is handed back as it is.
C4_PrepareIdempotent ==
  again # None => (snap.t = "object" /\ snap.prepared /\ again = snap)

\* a snapshot that holds the keys of an embedded and of a wrapped reference
\* was normalized again
C4_Witness ==
  /\ again.t = "object"
  /\ {"id", "title", "author", "editor"} \subseteq DOMAIN again.o
  /\ again.o.editor = entities[AUTHOR].f.id

\* C5: diffEntities(e, e) of an entity that is not mutated between the two
\* normalizations is empty; the prepared marker is no field of it.
C5_DiffSelfEmpty ==
  op = "diffEntities" => (ret.t = "object" /\ DOMAIN ret.o = {} /\ ~ret.prepared)

\* the Book compared with itself held non-empty arrays
C5_Witness ==
  /\ op = "diffEntities" /\ ret.t = "object"
  /\ Len(Live("tags").el) > 0
  /\ Len(Live("prefs").o.list.el) > 0

\* the fields of the Book that have a custom type
CodecFields == {BookProperties[i].name : i \in {j \in 1..Len(BookProperties) :
                                                  BookProperties[j].customType # "none"}}

\* C10 (as amended): an in-place mutation of an array or nested object of the
\* live entity leaves unchanged every field of the snapshot taken before that
\* has no custom type.
C10_SnapshotFrozenAmended ==
  [][(snap.t = "object" /\ entities' # entities) =>
       \A k \in DOMAIN snap.o \ CodecFields : snap'.o[k] = snap.o[k]]_vars

\* C10 as stated: every field of the snapshot is left unchanged.
C10_SnapshotFrozenOriginal ==
  [][(snap.t = "object" /\ entities' # entities) =>
       \A k \in DOMAIN snap.o : snap'.o[k] = snap.o[k]]_vars

\* the live arrays have grown since the snapshot was taken
C10_Witness ==
  /\ snap.t = "object"
  /\ Len(snap.o.tags.el) < Len(Live("tags").el)
  /\ Len(snap.o.prefs.o.list.el) < Len(Live("prefs").o.list.el)
  /\ DOMAIN snap.o.prefs.o # DOMAIN Live("prefs").o

=============================================================================
